---- MODULE Spec2Model ----
(***************************************************************************)
(* Verification model of four units of the VcXsrv source tree:             *)
(*   - mesalib/src/compiler/nir/nir_split_var_copies.c  (copy splitting)   *)
(*   - lower_subroutine.cpp (src/unnamed/part_000)      (if-ladder)        *)
(*   - pthreads/sem_post_multiple.c                     (semaphore post)   *)
(*   - pthreads/ptw32_reuse.c                           (thread reuse)     *)
(* Each unit has its own specification (SpecNir, SpecSub, SpecSem,         *)
(* SpecReuse) over its own variables; the variables of the other units     *)
(* stay at their initial values.                                           *)
(***************************************************************************)
EXTENDS Integers, Sequences, FiniteSets, TLC

VARIABLES
  \* ---- nir_split_var_copies.c ----
  heap,           \* every nir_instr allocated so far, by SSA index
  shader,         \* nir_shader: sequence of nir_function
  args_rtl,       \* build property: C argument evaluation order
  nir_pc,         \* position in nir_split_var_copies / split_var_copies_impl
  function,       \* nir_foreach_function cursor (index into shader)
  block,          \* nir_foreach_block cursor (index into impl.blocks)
  instr,          \* nir_foreach_instr_safe cursor (SSA index, 0 = end of block)
  impl_progress,  \* `progress` local of split_var_copies_impl
  progress,       \* `progress` local of nir_split_var_copies
  returned,       \* sequence of the values returned by finished runs
  splits,         \* history: one record per copy_deref the pass has split
  ndebug,         \* build property: NDEBUG is defined
  entry,          \* history: the impl as split_var_copies_impl found it
  visits,         \* history: instructions the running loop has visited, in order
  impls,          \* history: one record per finished split_var_copies_impl
  \* ---- lower_subroutine.cpp ----
  instructions,   \* exec_list handed to lower_subroutine
  state,          \* _mesa_glsl_parse_state: num_subroutines, subroutines
  derefs,         \* ir_dereference_variable objects allocated (ralloc)
  v,              \* lower_subroutine_visitor
  node,           \* visit_list_elements cursor (position in instructions)
  sub_pc,         \* position in lower_subroutine
  sub_result,     \* value returned by lower_subroutine
  body_metadata,  \* validity record of the body lower_subroutine works on
  lowered,        \* history: one record per indirect call visited
  \* ---- sem_post_multiple.c ----
  sem,            \* the sem_t_ object: value, lock (owner or NULL), sem (kernel count)
  sem_thr,        \* per thread: position in sem_post_multiple and its locals
  errno,          \* per thread: errno
  posts,          \* history: one record per finished sem_post_multiple
  \* ---- ptw32_reuse.c ----
  ptw32_threadReuseTop,
  ptw32_threadReuseBottom,
  ptw32_thread_reuse_lock,   \* owner of the lock, or NULL
  thread_structs, \* the ptw32_thread_t objects, by address
  reuse_thr,      \* per caller: position in Push/Pop and its locals
  reuse_queue,    \* history: structs pushed and not yet popped, in push order
  pops,           \* history: one record per finished ptw32_threadReusePop
  stale           \* history: the handles of the threads destroyed so far

nir_vars == << heap, shader, args_rtl, nir_pc, function, block, instr,
               impl_progress, progress, returned, splits, ndebug, entry, visits,
               impls >>
sub_vars == << instructions, state, derefs, v, node, sub_pc, sub_result,
               body_metadata, lowered >>
sem_vars == << sem, sem_thr, errno, posts >>
reuse_vars == << ptw32_threadReuseTop, ptw32_threadReuseBottom, ptw32_thread_reuse_lock,
                 thread_structs, reuse_thr, reuse_queue, pops, stale >>
vars == << nir_vars, sub_vars, sem_vars, reuse_vars >>

NULL == 0

(***************************************************************************)
(* Bounds of the model.                                                    *)
(***************************************************************************)
MaxFields == 2        \* fields of a first-level struct
MaxArrayLen == 4      \* longest array
MaxInstrs == 2        \* copy / load instructions of a function body
MaxRuns == 2          \* runs of nir_split_var_copies on the same shader
MaxSubroutines == 3   \* state->num_subroutines
MaxCalls == 2         \* instructions of the list handed to lower_subroutine
IntBits == 4          \* width of int
MaxPosters == 2       \* threads calling sem_post_multiple
MaxPosts == 3         \* calls of sem_post_multiple
MaxWaiters == 2       \* threads waiting on the semaphore at the start
MaxCount == 2         \* largest count posted
MaxStructs == 2       \* ptw32_thread_t objects allocated
MaxCallers == 2       \* threads calling ptw32_threadReusePush / Pop
MaxReuseOps == 7      \* calls of ptw32_threadReusePush / Pop
ReuseBits == 2        \* width of the reuse counter ptHandle.x

(***************************************************************************)
(* glsl_type: a closed variant over scalar, vector, matrix, array, struct. *)
(* n is glsl_get_length (matrix columns, array length, struct fields) or   *)
(* the component count of a vector; sub holds the element / column / field *)
(* types.                                                                  *)
(***************************************************************************)
GlslType(kind, n, sub) == [kind |-> kind, n |-> n, sub |-> sub]
glsl_void == GlslType("void", 0, << >>)
glsl_float == GlslType("scalar", 1, << >>)
glsl_vec(n) == GlslType("vector", n, << >>)
glsl_mat(c, r) == GlslType("matrix", c, << glsl_vec(r) >>)
glsl_array(e, n) == GlslType("array", n, << e >>)
glsl_struct(fs) == GlslType("struct", Len(fs), fs)

glsl_type_is_vector_or_scalar(t) == t.kind \in {"scalar", "vector"}
glsl_type_is_struct(t) == t.kind = "struct"
glsl_type_is_matrix(t) == t.kind = "matrix"
glsl_type_is_array(t) == t.kind = "array"
glsl_get_length(t) == IF t.kind \in {"matrix", "array", "struct"} THEN t.n ELSE 0
glsl_get_struct_field(t, i) == t.sub[i + 1]
glsl_get_array_element(t) == t.sub[1]

SeqsUpTo(S, n) == UNION { [1..k -> S] : k \in 0..n }

LeafTypes == { glsl_float, glsl_vec(3) }
MatrixTypes == { glsl_mat(2, 2), glsl_mat(4, 3) }
ArrayLens == { 1, MaxArrayLen }
Level1Types ==
  LeafTypes \cup MatrixTypes
    \cup { glsl_array(e, n) : e \in LeafTypes, n \in ArrayLens }
    \cup { glsl_struct(fs) : fs \in SeqsUpTo(LeafTypes \cup {glsl_mat(4, 3)}, MaxFields) }
Level2Types ==
  Level1Types
    \cup { glsl_array(e, MaxArrayLen) : e \in Level1Types }
    \cup { glsl_struct(<< e >>) : e \in Level1Types }
    \cup { glsl_struct(<< l, e >>) : l \in {glsl_vec(3)}, e \in Level1Types }
\* struct { struct { mat } s; } : a struct holding a struct holding a matrix
NestedMatrixStructs ==
  { glsl_struct(<< glsl_struct(<< glsl_struct(<< m >>) >>) >>) : m \in MatrixTypes }
\* struct { float a[1][N]; mat2 m; } s[N] : arrays of structs of arrays of arrays
DeepExample ==
  glsl_array(glsl_struct(<< glsl_array(glsl_array(glsl_float, 1), MaxArrayLen),
                            glsl_mat(2, 2) >>), MaxArrayLen)
CopyTypes == Level2Types \cup NestedMatrixStructs \cup {DeepExample}

(***************************************************************************)
(* nir_instr.  One record shape for every instruction:                     *)
(*   type   nir_instr_type ("deref", "intrinsic")                          *)
(*   op     nir_deref_type of a deref, nir_intrinsic_op of an intrinsic    *)
(*   parent parent deref (SSA index) of a struct / array_wildcard deref    *)
(*   index  field index of a struct deref, variable of a var deref         *)
(*   gtype  glsl type of a deref                                           *)
(*   src    sources of an intrinsic (SSA indices of derefs)                *)
(***************************************************************************)
NirInstr(type, op, parent, index, gtype, src) ==
  [type |-> type, op |-> op, parent |-> parent, index |-> index,
   gtype |-> gtype, src |-> src]
DerefVar(var, t) == NirInstr("deref", "var", NULL, var, t, << >>)
CopyDeref(dst, src) == NirInstr("intrinsic", "copy_deref", NULL, 0, glsl_void, << dst, src >>)
LoadDeref(src) == NirInstr("intrinsic", "load_deref", NULL, 0, glsl_void, << src >>)

(***************************************************************************)
(* nir_builder: the heap of instructions and what was emitted at the       *)
(* cursor, in emission order.  Every build call appends one instruction.   *)
(***************************************************************************)
nir_builder_emit(b, ins) ==
  [heap |-> Append(b.heap, ins), emitted |-> Append(b.emitted, Len(b.heap) + 1)]
nir_build_deref_struct(b, parent, i) ==
  nir_builder_emit(b, NirInstr("deref", "struct", parent, i,
                               glsl_get_struct_field(b.heap[parent].gtype, i), << >>))
nir_build_deref_array_wildcard(b, parent) ==
  nir_builder_emit(b, NirInstr("deref", "array_wildcard", parent, 0,
                               glsl_get_array_element(b.heap[parent].gtype), << >>))
nir_copy_deref(b, dst, src) == nir_builder_emit(b, CopyDeref(dst, src))
\* the deref a build call has just returned
Built(b) == Len(b.heap)

(***************************************************************************)
(* split_deref_copy_instr.  C leaves the order in which the two argument   *)
(* derefs are built to the compiler: rtl is the order of the build.        *)
(***************************************************************************)
RECURSIVE split_deref_copy_instr(_, _, _, _)
RECURSIVE split_struct_fields(_, _, _, _, _)

\* one build call: nir_build_deref_struct(b, parent, i) for a field step,
\* nir_build_deref_array_wildcard(b, parent) for a wildcard step
BuildStep(b, parent, step) ==
  IF step[1] = "field" THEN nir_build_deref_struct(b, parent, step[2])
                       ELSE nir_build_deref_array_wildcard(b, parent)

\* the two argument derefs of a recursive call, built in the build's order
BuildPair(b, rtl, dst, src, step) ==
  IF rtl
    THEN LET b1 == BuildStep(b, src, step)
             b2 == BuildStep(b1, dst, step)
         IN  [b |-> b2, dst |-> Built(b2), src |-> Built(b1)]
    ELSE LET b1 == BuildStep(b, dst, step)
             b2 == BuildStep(b1, src, step)
         IN  [b |-> b2, dst |-> Built(b1), src |-> Built(b2)]

\* for (unsigned i = 0; i < glsl_get_length(src->type); i++), from index i on
split_struct_fields(b, rtl, dst, src, i) ==
  IF i < glsl_get_length(b.heap[src].gtype)
    THEN LET p == BuildPair(b, rtl, dst, src, << "field", i >>)
         IN  split_struct_fields(split_deref_copy_instr(p.b, rtl, p.dst, p.src),
                                 rtl, dst, src, i + 1)
    ELSE b

\* mutant: the field loop starts at index 1
split_struct_case_from_1(b, rtl, dst, src) == split_struct_fields(b, rtl, dst, src, 1)

\* the struct branch: every field from index 0
split_struct_case(b, rtl, dst, src) == split_struct_fields(b, rtl, dst, src, 0)

\* mutant: an array or matrix is copied whole, without a wildcard step
split_array_case_whole(b, rtl, dst, src) == nir_copy_deref(b, dst, src)

\* the matrix / array branch: one wildcard step, then recurse
split_array_case(b, rtl, dst, src) ==
  LET p == BuildPair(b, rtl, dst, src, << "wildcard" >>)
  IN  split_deref_copy_instr(p.b, rtl, p.dst, p.src)

split_deref_copy_instr(b, rtl, dst, src) ==
  LET t == b.heap[src].gtype IN
  IF glsl_type_is_vector_or_scalar(t) THEN nir_copy_deref(b, dst, src)
  ELSE IF glsl_type_is_struct(t) THEN split_struct_case(b, rtl, dst, src)
  ELSE split_array_case(b, rtl, dst, src)

(***************************************************************************)
(* nir_metadata and the function bodies.                                   *)
(***************************************************************************)
nir_metadata_block_index == "block_index"
nir_metadata_dominance == "dominance"
nir_metadata_live_ssa_defs == "live_ssa_defs"
nir_metadata_not_properly_reset == "not_properly_reset"
nir_metadata_all ==
  { nir_metadata_block_index, nir_metadata_dominance, nir_metadata_live_ssa_defs }

\* nir_metadata_preserve: only the analyses named stay valid
nir_metadata_preserve(impl, preserved) ==
  [impl EXCEPT !.valid_metadata = impl.valid_metadata \cap preserved]

NirImpl(blocks, valid) == [blocks |-> blocks, valid_metadata |-> valid]
\* function->impl is NULL (<< >>) for a declaration without a body
NirFunction(impl) == [impl |-> impl]

\* position of instruction id in a block (0 when absent)
IndexOf(seq, id) ==
  IF \E i \in 1..Len(seq) : seq[i] = id
    THEN CHOOSE i \in 1..Len(seq) : seq[i] = id
    ELSE 0
\* instr->node.next: the following instruction of the block, 0 at the tail
NextInstr(blk, id) ==
  LET i == IndexOf(blk, id) IN IF i < Len(blk) THEN blk[i + 1] ELSE NULL
\* (variant: the builder's cursor is at the end of the block)
ReplaceInstr_at_end(blk, id, emitted) ==
  LET i == IndexOf(blk, id)
  IN  SubSeq(blk, 1, i - 1) \o SubSeq(blk, i + 1, Len(blk)) \o emitted
\* nir_instr_remove, then the builder's insertions at the returned cursor
ReplaceInstr(blk, id, emitted) ==
  LET i == IndexOf(blk, id)
  IN  SubSeq(blk, 1, i - 1) \o emitted \o SubSeq(blk, i + 1, Len(blk))
\* first instruction at or after block bi: << block, instr >>
RECURSIVE FirstInstrFrom(_, _)
FirstInstrFrom(blocks, bi) ==
  IF bi > Len(blocks) THEN << bi, NULL >>
  ELSE IF Len(blocks[bi]) > 0 THEN << bi, blocks[bi][1] >>
  ELSE FirstInstrFrom(blocks, bi + 1)

(***************************************************************************)
(* Function bodies the pass is run on.  A "copy" is                        *)
(*   dst = deref_var d; src = deref_var s; copy_deref dst, src             *)
(* and a "load" is  p = deref_var d; load_deref p.  Before the pass there  *)
(* are no wildcard derefs.                                                 *)
(***************************************************************************)
RECURSIVE BuildBody(_, _, _, _)
BuildBody(b, kinds, t, k) ==
  IF k > Len(kinds) THEN b
  ELSE IF kinds[k] = "copy"
    THEN LET b1 == nir_builder_emit(b, DerefVar(2 * k, t))
             b2 == nir_builder_emit(b1, DerefVar(2 * k + 1, t))
         IN  BuildBody(nir_copy_deref(b2, Built(b1), Built(b2)), kinds, t, k + 1)
    ELSE LET b1 == nir_builder_emit(b, DerefVar(2 * k, t))
         IN  BuildBody(nir_builder_emit(b1, LoadDeref(Built(b1))), kinds, t, k + 1)

InstrKinds == { "copy", "load" }
\* instructions a kind expands to
KindSize(k) == IF k = "copy" THEN 3 ELSE 2
RECURSIVE KindsSize(_, _)
KindsSize(kinds, n) == IF n = 0 THEN 0 ELSE KindsSize(kinds, n - 1) + KindSize(kinds[n])

\* a body of two blocks: the first `cut` kinds in block 1, the rest in block 2
Body(kinds, cut, t) ==
  LET b == BuildBody([heap |-> << >>, emitted |-> << >>], kinds, t, 1)
      n == KindsSize(kinds, cut)
  IN  [heap |-> b.heap,
       blocks |-> << SubSeq(b.emitted, 1, n), SubSeq(b.emitted, n + 1, Len(b.emitted)) >>]

\* the struct { vec3 a; float b[4]; } of the structural-equivalence example
ExampleStruct == glsl_struct(<< glsl_vec(3), glsl_array(glsl_float, 4) >>)
LayoutTypes ==
  { glsl_float, ExampleStruct, glsl_array(glsl_struct(<< glsl_float >>), MaxArrayLen) }
Bodies ==
  { Body(<< "copy" >>, 1, t) : t \in CopyTypes \cup {ExampleStruct} }
    \cup UNION { { Body(kinds, cut, t) : cut \in 0..Len(kinds), t \in LayoutTypes } :
                  kinds \in SeqsUpTo(InstrKinds, MaxInstrs) \ {<< >>} }
    \cup { Body(<< >>, 0, glsl_float) }

InitialMetadata ==
  { nir_metadata_all, nir_metadata_all \cup {nir_metadata_not_properly_reset} }

\* no semaphore exists
SemIdle ==
  /\ sem = [value |-> 0, lock |-> NULL, sem |-> 0]
  /\ sem_thr = << >>  /\ errno = << >>  /\ posts = << >>

\* the reuse list is not in use
ReuseIdle ==
  /\ ptw32_threadReuseTop = NULL  /\ ptw32_threadReuseBottom = NULL
  /\ ptw32_thread_reuse_lock = NULL  /\ thread_structs = << >>
  /\ reuse_thr = << >>  /\ reuse_queue = << >>  /\ pops = << >>  /\ stale = {}

\* lower_subroutine is not running and has nothing to work on
SubIdle ==
  /\ instructions = << >>  /\ state = << >>  /\ derefs = << >>
  /\ v = [progress |-> FALSE]  /\ node = NULL  /\ sub_pc = "none"
  /\ sub_result = FALSE  /\ body_metadata = {}  /\ lowered = << >>

NirInit ==
  /\ ndebug \in BOOLEAN
  /\ \E body \in Bodies, valid \in InitialMetadata, decl_first \in BOOLEAN :
       \* the not_properly_reset bit is only ever set by debug builds
       /\ ndebug => nir_metadata_not_properly_reset \notin valid
       /\ heap = body.heap
       /\ shader = IF decl_first
                     THEN << NirFunction(<< >>), NirFunction(<< NirImpl(body.blocks, valid) >>) >>
                     ELSE << NirFunction(<< NirImpl(body.blocks, valid) >>) >>
  /\ args_rtl \in BOOLEAN
  /\ nir_pc = "idle"
  /\ function = 1
  /\ block = 1
  /\ instr = NULL
  /\ impl_progress = FALSE
  /\ progress = FALSE
  /\ returned = << >>
  /\ splits = << >>
  /\ entry = << >>
  /\ visits = << >>
  /\ impls = << >>
  /\ SubIdle
  /\ SemIdle
  /\ ReuseIdle

(***************************************************************************)
(* nir_split_var_copies and split_var_copies_impl, one step per loop       *)
(* iteration.                                                              *)
(***************************************************************************)
Impl == shader[function].impl[1]

\* nir_split_var_copies is called: bool progress = false; first function
NirEnter ==
  /\ nir_pc = "idle"
  /\ Len(returned) < MaxRuns
  /\ progress' = FALSE
  /\ function' = 1
  /\ nir_pc' = "foreach_function"
  /\ UNCHANGED << sub_vars, sem_vars, reuse_vars, ndebug, entry, visits, impls, splits, heap, shader, args_rtl, block, instr, impl_progress, returned >>

\* if (function->impl) fails: next function
NirSkipDeclaration ==
  /\ nir_pc = "foreach_function"
  /\ function <= Len(shader)
  /\ shader[function].impl = << >>
  /\ function' = function + 1
  /\ UNCHANGED << sub_vars, sem_vars, reuse_vars, ndebug, entry, visits, impls, splits, heap, shader, args_rtl, nir_pc, block, instr, impl_progress,
                  progress, returned >>

\* split_var_copies_impl is entered: bool progress = false; first instruction
NirImplBegin ==
  /\ nir_pc = "foreach_function"
  /\ function <= Len(shader)
  /\ shader[function].impl # << >>
  /\ impl_progress' = FALSE
  /\ block' = FirstInstrFrom(Impl.blocks, 1)[1]
  /\ instr' = FirstInstrFrom(Impl.blocks, 1)[2]
  /\ nir_pc' = "foreach_instr"
  /\ entry' = << Impl >>
  /\ visits' = << >>
  /\ UNCHANGED << sub_vars, sem_vars, reuse_vars, ndebug, impls, splits, heap, shader, args_rtl, function, progress, returned >>

\* (variant: the walk restarts at the head of the current block)
Advance_rescan(blocks_after, next) == FirstInstrFrom(blocks_after, block)
\* where nir_foreach_instr_safe / nir_foreach_block go after this iteration:
\* the successor saved before the body ran, else the next block's head
Advance(blocks_after, next) ==
  IF next # NULL THEN << block, next >> ELSE FirstInstrFrom(blocks_after, block + 1)

\* one iteration of the instruction loop whose body hits a `continue`
NirVisitOther ==
  /\ nir_pc = "foreach_instr"
  /\ instr # NULL
  /\ \/ heap[instr].type # "intrinsic"
     \/ heap[instr].type = "intrinsic" /\ heap[instr].op # "copy_deref"
  /\ LET next == NextInstr(Impl.blocks[block], instr)
         to == Advance(Impl.blocks, next)
     IN  block' = to[1] /\ instr' = to[2]
  /\ visits' = Append(visits, instr)
  /\ UNCHANGED << sub_vars, sem_vars, reuse_vars, ndebug, entry, impls, splits, heap, shader, args_rtl, nir_pc, function, impl_progress,
                  progress, returned >>

\* one iteration of the instruction loop on a copy_deref
NirVisitCopy ==
  /\ nir_pc = "foreach_instr"
  /\ instr # NULL
  /\ heap[instr].type = "intrinsic"
  /\ heap[instr].op = "copy_deref"
  /\ LET next == NextInstr(Impl.blocks[block], instr)
         b == split_deref_copy_instr([heap |-> heap, emitted |-> << >>], args_rtl,
                                     heap[instr].src[1], heap[instr].src[2])
         blk == ReplaceInstr(Impl.blocks[block], instr, b.emitted)
         blocks_after == [Impl.blocks EXCEPT ![block] = blk]
         to == Advance(blocks_after, next)
     IN  /\ heap' = b.heap
         /\ shader' = [shader EXCEPT ![function].impl[1].blocks = blocks_after]
         /\ block' = to[1]
         /\ instr' = to[2]
         /\ splits' = Append(splits, [copy |-> instr, function |-> function,
                                      block |-> block, emitted |-> b.emitted,
                                      before |-> Impl.blocks[block], after |-> blk,
                                      blocks_before |-> Impl.blocks,
                                      blocks_after |-> blocks_after])
  /\ impl_progress' = TRUE
  /\ visits' = Append(visits, instr)
  /\ UNCHANGED << sub_vars, sem_vars, reuse_vars, ndebug, entry, impls, args_rtl, nir_pc, function, progress, returned >>

\* (variant: the preserve declaration is made whatever the progress)
ImplMetadata_always_preserve(impl, prog) ==
  nir_metadata_preserve(impl, {nir_metadata_block_index, nir_metadata_dominance})
\* the metadata declaration at the end of split_var_copies_impl
ImplMetadata(impl, prog) ==
  IF prog
    THEN nir_metadata_preserve(impl, {nir_metadata_block_index, nir_metadata_dominance})
    ELSE IF ndebug THEN impl
    ELSE [impl EXCEPT !.valid_metadata = @ \ {nir_metadata_not_properly_reset}]

\* the loops are over: metadata, return progress;
\* progress = split_var_copies_impl(function->impl) || progress
NirImplEnd ==
  /\ nir_pc = "foreach_instr"
  /\ instr = NULL
  /\ shader' = [shader EXCEPT ![function].impl[1] = ImplMetadata(@, impl_progress)]
  /\ progress' = (impl_progress \/ progress)
  /\ function' = function + 1
  /\ nir_pc' = "foreach_function"
  /\ impls' = Append(impls, [function |-> function, entry |-> entry[1],
                             exit |-> shader'[function].impl[1],
                             visits |-> visits, splits |-> Len(splits)])
  /\ UNCHANGED << sub_vars, sem_vars, reuse_vars, ndebug, entry, visits, splits, heap, args_rtl, block, instr, impl_progress, returned >>

\* nir_split_var_copies: return progress
NirReturn ==
  /\ nir_pc = "foreach_function"
  /\ function > Len(shader)
  /\ returned' = Append(returned, progress)
  /\ nir_pc' = "idle"
  /\ UNCHANGED << sub_vars, sem_vars, reuse_vars, ndebug, entry, visits, impls, splits, heap, shader, args_rtl, function, block, instr, impl_progress,
                  progress >>

NirNext ==
  \/ NirEnter
  \/ NirSkipDeclaration
  \/ NirImplBegin
  \/ NirVisitOther
  \/ NirVisitCopy
  \/ NirImplEnd
  \/ NirReturn

SpecNir == NirInit /\ [][NirNext]_vars

(***************************************************************************)
(* Reading the result: deref chains and the copies of a body.              *)
(***************************************************************************)
\* the steps of the chain from deref `root` down to deref `d`
RECURSIVE ChainFrom(_, _)
ChainFrom(d, root) ==
  IF d = root \/ heap[d].op = "var" THEN << >>
  ELSE Append(ChainFrom(heap[d].parent, root),
              IF heap[d].op = "struct" THEN << "field", heap[d].index >>
                                       ELSE << "wildcard" >>)
\* the whole chain of a deref, from its variable
Chain(d) == ChainFrom(d, NULL)
\* the variable deref a chain is rooted at
RECURSIVE RootOf(_)
RootOf(d) == IF heap[d].op = "var" THEN d ELSE RootOf(heap[d].parent)
\* the type a chain resolves to: its steps folded over a type
RECURSIVE FoldType(_, _, _)
FoldType(t, chain, k) ==
  IF k > Len(chain) THEN t
  ELSE IF chain[k][1] = "field"
    THEN IF t.kind = "struct" /\ chain[k][2] < t.n
           THEN FoldType(t.sub[chain[k][2] + 1], chain, k + 1)
           ELSE glsl_void
    ELSE IF t.kind \in {"array", "matrix"}
           THEN FoldType(t.sub[1], chain, k + 1)
           ELSE glsl_void
ResolvedType(d) == FoldType(heap[RootOf(d)].gtype, Chain(d), 1)

IsCopy(id) == heap[id].type = "intrinsic" /\ heap[id].op = "copy_deref"
\* the copy instructions of every body of the shader
CopiesInShader ==
  { id \in 1..Len(heap) :
      /\ IsCopy(id)
      /\ \E f \in 1..Len(shader) :
           /\ shader[f].impl # << >>
           /\ \E bi \in 1..Len(shader[f].impl[1].blocks) :
                IndexOf(shader[f].impl[1].blocks[bi], id) # 0 }
PassHasRun == nir_pc = "idle" /\ returned # << >>

IsLeafType(t) == t.kind \in {"scalar", "vector"}
\* the chain ends in a wildcard step that no wildcard step precedes directly
EndsInOneWildcard(chain) ==
  /\ Len(chain) >= 1
  /\ chain[Len(chain)] = << "wildcard" >>
  /\ (Len(chain) >= 2 => chain[Len(chain) - 1] # << "wildcard" >>)

(***************************************************************************)
(* C1.  Claim: running nir_split_var_copies a second time on the output of *)
(* a first run returns false (no progress), for every function body,       *)
(* including bodies that still hold copy instructions after the first run. *)
(* The code sets progress for every copy_deref it meets, so this fails as  *)
(* soon as the body holds one copy.                                        *)
(***************************************************************************)
C1_SecondRunNoProgress == Len(returned) >= 2 => returned[2] = FALSE

(***************************************************************************)
(* C8.  After the copy-splitting pass has run, the destination and source  *)
(* chains of every copy instruction resolve to a scalar or vector type, or *)
(* terminate in exactly one ArrayWildcard step; for every nesting of       *)
(* structs, arrays and matrices.                                           *)
(***************************************************************************)
C8_LeafTypeInvariant ==
  PassHasRun =>
    \A id \in CopiesInShader : \A k \in 1..2 :
      \/ IsLeafType(ResolvedType(heap[id].src[k]))
      \/ EndsInOneWildcard(Chain(heap[id].src[k])) /\ ResolvedType(heap[id].src[k]) # glsl_void
\* an array of structs holding an array of arrays has been split
C8_Witness ==
  /\ PassHasRun
  /\ \E id \in CopiesInShader :
       Chain(heap[id].src[1]) =
         << << "wildcard" >>, << "field", 0 >>, << "wildcard" >>, << "wildcard" >> >>

(***************************************************************************)
(* C9.  For a copy of type T the pass emits exactly one copy per leaf of   *)
(* T's type tree: a struct contributes its fields in declaration order, an *)
(* array or a matrix exactly one wildcard step whatever its length or      *)
(* dimensions.  struct {a: vec3, b: float[4]} yields dst.a = src.a then    *)
(* dst.b[*] = src.b[*].                                                    *)
(***************************************************************************)
\* the leaves of a type tree as chains, in declaration order
RECURSIVE LeafPaths(_)
RECURSIVE FieldLeafPaths(_, _)
PrefixAll(step, paths) == [k \in 1..Len(paths) |-> << step >> \o paths[k]]
FieldLeafPaths(t, i) ==
  IF i > Len(t.sub) THEN << >>
  ELSE PrefixAll(<< "field", i - 1 >>, LeafPaths(t.sub[i])) \o FieldLeafPaths(t, i + 1)
LeafPaths(t) ==
  IF IsLeafType(t) THEN << << >> >>
  ELSE IF t.kind = "struct" THEN FieldLeafPaths(t, 1)
  ELSE PrefixAll(<< "wildcard" >>, LeafPaths(t.sub[1]))

RECURSIVE Descends(_, _)
Descends(d, root) ==
  \/ d = root
  \/ heap[d].op # "var" /\ Descends(heap[d].parent, root)
\* the copies a split emitted, in emission order
EmittedCopies(sp) == SelectSeq(sp.emitted, IsCopy)
\* the emitted copies are exactly `paths`, applied to both sides of `copy`
CopiesFollow(sp, paths) ==
  LET cs == EmittedCopies(sp)
      dst == heap[sp.copy].src[1]
      src == heap[sp.copy].src[2]
  IN  /\ Len(cs) = Len(paths)
      /\ \A k \in 1..Len(cs) :
           /\ Descends(heap[cs[k]].src[1], dst)
           /\ Descends(heap[cs[k]].src[2], src)
           /\ ChainFrom(heap[cs[k]].src[1], dst) = paths[k]
           /\ ChainFrom(heap[cs[k]].src[2], src) = paths[k]
CopyType(sp) == heap[heap[sp.copy].src[2]].gtype

C9_OneCopyPerLeaf ==
  \A i \in 1..Len(splits) :
    /\ CopiesFollow(splits[i], LeafPaths(CopyType(splits[i])))
    /\ CopyType(splits[i]) \in MatrixTypes \cup { glsl_array(glsl_float, n) : n \in ArrayLens } =>
         CopiesFollow(splits[i], << << << "wildcard" >> >> >>)
    /\ CopyType(splits[i]) = ExampleStruct =>
         CopiesFollow(splits[i], << << << "field", 0 >> >>,
                                    << << "field", 1 >>, << "wildcard" >> >> >>)
\* the example struct has been split into its two copies
C9_Witness ==
  \E i \in 1..Len(splits) :
    CopyType(splits[i]) = ExampleStruct /\ Len(EmittedCopies(splits[i])) = 2

(***************************************************************************)
(* The metadata declaration of one split_var_copies_impl.                  *)
(***************************************************************************)
\* copies the i-th finished split_var_copies_impl has split
SplitsOfImpl(i) == impls[i].splits - (IF i > 1 THEN impls[i - 1].splits ELSE 0)

\* C11: split_var_copies_impl declares block_index and dominance preserved
\* (every other flag is dropped, these two stay as they were) exactly when it
\* split at least one copy; when it split none, the validity record is what
\* it was, less the debug-only not_properly_reset bit.
C11_PreserveIffSplit ==
  \A i \in 1..Len(impls) :
    LET before == impls[i].entry.valid_metadata
        after == impls[i].exit.valid_metadata
    IN  /\ SplitsOfImpl(i) >= 1 =>
             after = before \cap { nir_metadata_block_index, nir_metadata_dominance }
        /\ SplitsOfImpl(i) = 0 =>
             after = before \ { nir_metadata_not_properly_reset }
        /\ nir_metadata_live_ssa_defs \in before =>
             (nir_metadata_live_ssa_defs \notin after <=> SplitsOfImpl(i) >= 1)
\* an impl that visited instructions, split nothing, and came in with the
\* not_properly_reset bit and other flags set
C11_Witness ==
  \E i \in 1..Len(impls) :
    /\ SplitsOfImpl(i) = 0
    /\ impls[i].visits # << >>
    /\ nir_metadata_not_properly_reset \in impls[i].entry.valid_metadata
    /\ nir_metadata_live_ssa_defs \in impls[i].exit.valid_metadata

(***************************************************************************)
(* The instruction list around a split, and the walk over it.              *)
(***************************************************************************)
Elements(seq) == { seq[k] : k \in 1..Len(seq) }
RECURSIVE Flatten(_)
Flatten(blocks) ==
  IF blocks = << >> THEN << >> ELSE Head(blocks) \o Flatten(Tail(blocks))
NoDuplicates(seq) == \A a, b \in 1..Len(seq) : seq[a] = seq[b] => a = b

\* C18: at every split, the emitted instructions stand where the copy stood,
\* in emission order; the copy is gone from the block; the other
\* instructions of the block keep their order; the other blocks, and the
\* number of blocks, are as before.
C18_EmittedTakeCopyPosition ==
  \A i \in 1..Len(splits) :
    LET sp == splits[i]
        p == IndexOf(sp.before, sp.copy)
        n == Len(sp.emitted)
    IN  /\ p > 0
        /\ Len(sp.after) = Len(sp.before) - 1 + n
        /\ SubSeq(sp.after, p, p + n - 1) = sp.emitted
        /\ \A a, b \in 1..n : a < b => sp.emitted[a] < sp.emitted[b]
        /\ sp.copy \notin Elements(sp.after)
        /\ SelectSeq(sp.after, LAMBDA x : x \notin Elements(sp.emitted))
             = SelectSeq(sp.before, LAMBDA x : x # sp.copy)
        /\ Len(sp.blocks_after) = Len(sp.blocks_before)
        /\ \A k \in 1..Len(sp.blocks_before) :
             sp.blocks_after[k] = IF k = sp.block THEN sp.after ELSE sp.blocks_before[k]
\* a split of a copy that has instructions before and after it in its block,
\* replaced by several instructions, in a body of more than one block
C18_Witness ==
  \E i \in 1..Len(splits) :
    LET sp == splits[i]
        p == IndexOf(sp.before, sp.copy)
    IN  /\ 1 < p /\ p < Len(sp.before)
        /\ Len(sp.emitted) > 2
        /\ Len(sp.blocks_before) > 1

\* C19: in one split_var_copies_impl no instruction is visited twice, only
\* instructions present at entry are visited, and when the impl is over each
\* of them has been visited: the visits number what the body held at entry.
C19_EachOriginalVisitedOnce ==
  /\ nir_pc = "foreach_instr" =>
       /\ NoDuplicates(visits)
       /\ Elements(visits) \subseteq Elements(Flatten(entry[1].blocks))
       /\ Len(visits) <= Len(Flatten(entry[1].blocks))
  /\ \A i \in 1..Len(impls) :
       LET original == Flatten(impls[i].entry.blocks)
       IN  /\ NoDuplicates(impls[i].visits)
           /\ Elements(impls[i].visits) = Elements(original)
           /\ Len(impls[i].visits) = Len(original)
\* a finished impl that removed and inserted instructions during its walk
C19_Witness ==
  \E i \in 1..Len(impls) :
    /\ SplitsOfImpl(i) >= 2
    /\ Len(Flatten(impls[i].exit.blocks)) > Len(Flatten(impls[i].entry.blocks))
    /\ Len(impls[i].visits) = Len(Flatten(impls[i].entry.blocks))

(***************************************************************************)
(* lower_subroutine.cpp                                                    *)
(***************************************************************************)
\* nothing of nir_split_var_copies is running
NirIdle ==
  /\ heap = << >>  /\ shader = << >>  /\ args_rtl = FALSE  /\ nir_pc = "idle"
  /\ function = 1  /\ block = 1  /\ instr = NULL  /\ impl_progress = FALSE
  /\ progress = FALSE  /\ returned = << >>  /\ splits = << >>
  /\ ndebug = FALSE  /\ entry = << >>  /\ visits = << >>  /\ impls = << >>

\* subroutine (interface) types, and glsl_type::without_array
glsl_subroutine(n) == GlslType("subroutine", n, << >>)
RECURSIVE without_array(_)
without_array(t) == IF t.kind = "array" THEN without_array(t.sub[1]) ELSE t

\* ir_function of a subroutine: the interface types it implements and the
\* parameter lists of its signatures
IrFunction(name, types, sigs) ==
  [name |-> name, num_subroutine_types |-> Len(types), subroutine_types |-> types,
   signatures |-> sigs]
\* ir_function::exact_matching_signature: the signature whose parameter
\* types are exactly those of the actual parameters, NULL (<< >>) otherwise
exact_matching_signature(fn, actual_parameters) ==
  IF actual_parameters \in fn.signatures
    THEN << [function |-> fn.name, parameters |-> actual_parameters] >>
    ELSE << >>

\* ir_call; callee, return_deref (an object of derefs, NULL if none),
\* sub_var (<< >> for a direct call) and array_idx (<< >> if none)
IrCall(callee, return_deref, actual_parameters, sub_var, array_idx) ==
  [ir_type |-> "call", callee |-> callee, return_deref |-> return_deref,
   actual_parameters |-> actual_parameters, sub_var |-> sub_var,
   array_idx |-> array_idx]
\* new(mem_ctx) ir_call(sub_sig, return_deref, &ir->actual_parameters)
NewCall(sub_sig, return_deref, actual_parameters) ==
  IrCall(sub_sig, return_deref, actual_parameters, << >>, << >>)
\* ir_constant(s), ir_dereference_variable, ir_dereference_array
IrConstant(s) == [ir_type |-> "constant", value |-> s]
IrDereferenceVariable(var) == [ir_type |-> "dereference_variable", var |-> var]
IrDereferenceArray(var, idx) ==
  [ir_type |-> "dereference_array", var |-> var, array_index |-> idx]
\* equal(subr_to_int(var), lc)
Equal(var, lc) == [operation |-> "equal", lhs |-> var, rhs |-> lc]
\* if_tree(cond, then) and if_tree(cond, then, else); last_branch is << >>
\* while it is NULL
if_tree(cond, then_branch, last_branch) ==
  << [ir_type |-> "if", condition |-> cond, then_instructions |-> << then_branch >>,
      else_instructions |-> last_branch] >>

\* a wild pointer: what a build that survives NULL->clone() may hold
WildPointer == -1

\* the is_compat loop: some declared interface type is the bound variable's
\* type with its arrays stripped
is_compat(ir, fn) ==
  \E i \in 1..fn.num_subroutine_types :
    without_array(ir.sub_var[1].type) = fn.subroutine_types[i]

\* the rvalue `var` compared in each condition
BoundValue(ir) ==
  IF ir.array_idx # << >>
    THEN IrDereferenceArray(ir.sub_var[1], ir.array_idx[1])
    ELSE IrDereferenceVariable(ir.sub_var[1])

\* mutant: the destination is never cloned
NextReturnDeref_shared(acc, s) == acc

\* if (s > 0) return_deref = return_deref->clone(mem_ctx, NULL);
\* cloning through a NULL return_deref is undefined: acc.ub records it and
\* the deref becomes whatever the build yields (wild)
NextReturnDeref(acc, s) ==
  IF s > 0
    THEN IF acc.return_deref = NULL
           THEN [acc EXCEPT !.ub = TRUE, !.return_deref = WildPointer]
           ELSE IF acc.return_deref = WildPointer
             THEN [acc EXCEPT !.ub = TRUE]
             ELSE [acc EXCEPT !.derefs = Append(@, @[acc.return_deref]),
                              !.return_deref = Len(acc.derefs) + 1]
    ELSE acc

\* mutant: the new conditional goes to the innermost else of the ladder
RECURSIVE wrap_branch_innermost(_, _, _)
wrap_branch_innermost(cond, new_call, last_branch) ==
  IF last_branch = << >> THEN if_tree(cond, new_call, << >>)
  ELSE << [last_branch[1] EXCEPT !.else_instructions =
             wrap_branch_innermost(cond, new_call, @)] >>

\* if (!last_branch) last_branch = if_tree(cond, new_call);
\* else last_branch = if_tree(cond, new_call, last_branch);
wrap_branch(cond, new_call, last_branch) == if_tree(cond, new_call, last_branch)

\* the loop  for (int s = num_subroutines - 1; s >= 0; s--)  from index s on;
\* acc holds last_branch, return_deref, the deref objects and the ub mark
RECURSIVE subroutine_loop(_, _, _, _)
subroutine_loop(ir, st, s, acc) ==
  IF s < 0 THEN acc
  ELSE
    LET fn == st.subroutines[s + 1] IN
    IF ~is_compat(ir, fn) THEN subroutine_loop(ir, st, s - 1, acc)
    ELSE
      LET lc == IrConstant(s)
          var == BoundValue(ir)
          sub_sig == exact_matching_signature(fn, ir.actual_parameters)
          new_call == NewCall(sub_sig, acc.return_deref, ir.actual_parameters)
          branch == wrap_branch(Equal(var, lc), new_call, acc.last_branch)
      IN  subroutine_loop(ir, st, s - 1,
                          NextReturnDeref([acc EXCEPT !.last_branch = branch], s))

\* mutant: the call stays in the list when there is no ladder
Splice_keep_unlowered(list, pos, last_branch) ==
  IF last_branch = << >> THEN list
  ELSE SubSeq(list, 1, pos - 1) \o last_branch \o SubSeq(list, pos + 1, Len(list))

\* if (last_branch) ir->insert_before(last_branch);  ir->remove();
Splice(list, pos, last_branch) ==
  SubSeq(list, 1, pos - 1) \o last_branch \o SubSeq(list, pos + 1, Len(list))

\* visit_leave on an indirect call, up to the splice
BuildLadder(ir) ==
  subroutine_loop(ir, state, state.num_subroutines - 1,
                  [last_branch |-> << >>, return_deref |-> ir.return_deref,
                   derefs |-> derefs, ub |-> FALSE])

(***************************************************************************)
(* The programs lower_subroutine is run on.                                *)
(***************************************************************************)
SubroutineT1 == glsl_subroutine(1)
SubroutineT2 == glsl_subroutine(2)
FloatParams == << "float" >>
IntParams == << "int" >>
\* a registry entry: its interface types and its signatures
FunctionKinds ==
  { [types |-> << SubroutineT1 >>, sigs |-> {FloatParams}],
    [types |-> << SubroutineT1 >>, sigs |-> {IntParams}],
    [types |-> << SubroutineT2 >>, sigs |-> {FloatParams}],
    [types |-> << SubroutineT2, SubroutineT1 >>, sigs |-> {FloatParams, IntParams}] }
Registry(kinds) ==
  [num_subroutines |-> Len(kinds),
   subroutines |-> [s \in 1..Len(kinds) |-> IrFunction(s - 1, kinds[s].types, kinds[s].sigs)]]

SubVar(t) == [name |-> "sub", type |-> t]
DirectCallee == << [function |-> "direct", parameters |-> FloatParams] >>
CallKinds == { "indirect", "indirect_void", "indirect_array", "direct" }
\* the k-th instruction of the list; its return destination is deref object k
InitialCall(kind, k) ==
  IF kind = "indirect"
    THEN IrCall(<< >>, k, FloatParams, << SubVar(SubroutineT1) >>, << >>)
  ELSE IF kind = "indirect_void"
    THEN IrCall(<< >>, NULL, FloatParams, << SubVar(SubroutineT1) >>, << >>)
  ELSE IF kind = "indirect_array"
    THEN IrCall(<< >>, k, FloatParams,
                << SubVar(glsl_array(SubroutineT1, MaxArrayLen)) >>, << IrConstant(1) >>)
  ELSE IrCall(DirectCallee, k, FloatParams, << >>, << >>)

SubInit ==
  /\ \E kinds \in SeqsUpTo(FunctionKinds, MaxSubroutines) : state = Registry(kinds)
  /\ \E calls \in SeqsUpTo(CallKinds, MaxCalls) :
       /\ instructions = [k \in 1..Len(calls) |-> InitialCall(calls[k], k)]
       /\ derefs = [k \in 1..Len(calls) |-> [var |-> k]]
  /\ v = [progress |-> FALSE]
  /\ node = 1
  /\ sub_pc = "ready"
  /\ sub_result = FALSE
  /\ body_metadata = nir_metadata_all
  /\ lowered = << >>
  /\ NirIdle
  /\ SemIdle
  /\ ReuseIdle

\* lower_subroutine is called: the visitor is constructed, the walk starts
SubEnter ==
  /\ sub_pc = "ready"
  /\ v' = [progress |-> FALSE]
  /\ node' = 1
  /\ sub_pc' = "visiting"
  /\ UNCHANGED << nir_vars, sem_vars, reuse_vars, instructions, state, derefs, sub_result, body_metadata,
                  lowered >>

\* (variant: the early return is missing, the call is removed like a call
\* that found no candidate)
SubVisitDirect_removed ==
  /\ sub_pc = "visiting"
  /\ node <= Len(instructions)
  /\ instructions[node].sub_var = << >>
  /\ instructions' = Splice(instructions, node, << >>)
  /\ UNCHANGED << nir_vars, sem_vars, reuse_vars, node, state, derefs, v, sub_pc, sub_result,
                  body_metadata, lowered >>
\* visit_leave on a call without sub_var: return visit_continue
SubVisitDirect ==
  /\ sub_pc = "visiting"
  /\ node <= Len(instructions)
  /\ instructions[node].sub_var = << >>
  /\ node' = node + 1
  /\ UNCHANGED << nir_vars, sem_vars, reuse_vars, instructions, state, derefs, v, sub_pc, sub_result,
                  body_metadata, lowered >>

\* visit_leave on an indirect call, run to its end (a build that met
\* NULL->clone() goes on with a wild pointer)
SubVisitIndirect ==
  /\ sub_pc = "visiting"
  /\ node <= Len(instructions)
  /\ instructions[node].sub_var # << >>
  /\ LET ir == instructions[node]
         r == BuildLadder(ir)
         after == Splice(instructions, node, r.last_branch)
     IN  /\ instructions' = after
         /\ derefs' = r.derefs
         /\ node' = node + Len(r.last_branch)
         /\ lowered' = Append(lowered, [ir |-> ir, pos |-> node,
                                        last_branch |-> r.last_branch,
                                        before |-> instructions, after |-> after,
                                        derefs_before |-> Len(derefs)])
  /\ UNCHANGED << nir_vars, sem_vars, reuse_vars, state, v, sub_pc, sub_result, body_metadata >>

\* visit_leave on an indirect call that calls clone() through a NULL
\* return_deref: the process dies there
SubVisitCrash ==
  /\ sub_pc = "visiting"
  /\ node <= Len(instructions)
  /\ instructions[node].sub_var # << >>
  /\ BuildLadder(instructions[node]).ub
  /\ sub_pc' = "crashed"
  /\ UNCHANGED << nir_vars, sem_vars, reuse_vars, instructions, state, derefs, v, node, sub_result,
                  body_metadata, lowered >>

\* visit_list_elements is over: return v.progress
SubReturn ==
  /\ sub_pc = "visiting"
  /\ node > Len(instructions)
  /\ sub_result' = v.progress
  /\ sub_pc' = "done"
  /\ UNCHANGED << nir_vars, sem_vars, reuse_vars, instructions, state, derefs, v, node, body_metadata,
                  lowered >>

SubNext ==
  \/ SubEnter
  \/ SubVisitDirect
  \/ SubVisitIndirect
  \/ SubVisitCrash
  \/ SubReturn

SpecSub == SubInit /\ [][SubNext]_vars

(***************************************************************************)
(* Reading a ladder: what it compares and what it runs.                    *)
(***************************************************************************)
\* the conditionals of a ladder, outermost first, down the else branches
RECURSIVE LadderIfs(_)
LadderIfs(branch) ==
  IF branch = << >> THEN << >>
  ELSE << branch[1] >> \o LadderIfs(branch[1].else_instructions)
\* the constant a conditional compares the bound value against
TestedIndex(if_node) == if_node.condition.rhs.value
\* running a ladder with the bound variable holding val: the constants
\* compared, in the order they are compared, and the calls executed
RECURSIVE RunLadder(_, _)
RunLadder(branch, val) ==
  IF branch = << >> THEN [tests |-> << >>, calls |-> << >>]
  ELSE IF val = TestedIndex(branch[1])
    THEN [tests |-> << TestedIndex(branch[1]) >>, calls |-> branch[1].then_instructions]
    ELSE LET r == RunLadder(branch[1].else_instructions, val)
         IN  [tests |-> << TestedIndex(branch[1]) >> \o r.tests, calls |-> r.calls]
\* every call instruction of a list, those inside conditionals included
RECURSIVE AllCalls(_)
AllCalls(list) ==
  IF list = << >> THEN << >>
  ELSE (IF list[1].ir_type = "call" THEN << list[1] >>
        ELSE AllCalls(list[1].then_instructions) \o AllCalls(list[1].else_instructions))
       \o AllCalls(Tail(list))

\* registry indices eligible for an indirect call: the bound variable's type,
\* arrays stripped, is one of the candidate's interface types
EligibleSet(ir) ==
  { s \in 0..(state.num_subroutines - 1) :
      \E i \in 1..Len(state.subroutines[s + 1].subroutine_types) :
        state.subroutines[s + 1].subroutine_types[i] = without_array(ir.sub_var[1].type) }
\* eligible candidates without a signature for the call's parameters
Unmatched(ir) ==
  { s \in EligibleSet(ir) : ir.actual_parameters \notin state.subroutines[s + 1].signatures }
SetMin(S) == CHOOSE x \in S : \A y \in S : x <= y
SetMax(S) == CHOOSE x \in S : \A y \in S : x >= y
Lowerings == { lowered[i] : i \in 1..Len(lowered) }
\* a value of the bound variable that no comparison matches
NoCandidate == MaxSubroutines + 1

(***************************************************************************)
(* C2.  Claim: lower_subroutine returns true whenever it replaced or       *)
(* removed at least one indirect call, and false only when the instruction *)
(* list was left unmodified.  The visitor never sets progress, so the      *)
(* function returns false after it has rewritten the list.                 *)
(***************************************************************************)
C2_ReturnsWhetherModified ==
  sub_pc = "done" => (sub_result <=> lowered # << >>)

(***************************************************************************)
(* C3.  Claim: lowering an indirect call produces exactly one conditional  *)
(* per eligible registry index, each comparing the bound value against     *)
(* that index and no other; for a runtime value equal to an eligible index *)
(* exactly one branch executes: the direct call to that candidate.         *)
(***************************************************************************)
C3_OneBranchPerEligibleIndex ==
  \A e \in Lowerings :
    LET ifs == LadderIfs(e.last_branch)
        E == EligibleSet(e.ir)
    IN  /\ Len(ifs) = Cardinality(E)
        /\ { TestedIndex(ifs[k]) : k \in 1..Len(ifs) } = E
        /\ \A k \in 1..Len(ifs) :
             /\ ifs[k].condition.operation = "equal"
             /\ ifs[k].condition.lhs = BoundValue(e.ir)
        /\ \A val \in E :
             LET r == RunLadder(e.last_branch, val)
             IN  /\ Len(r.calls) = 1
                 /\ r.calls[1].callee =
                      << [function |-> val, parameters |-> e.ir.actual_parameters] >>
\* the same statement for the calls whose eligible candidates all have a
\* matching signature
C3_WhenEveryCandidateMatches ==
  \A e \in Lowerings :
    Unmatched(e.ir) = {} =>
      LET ifs == LadderIfs(e.last_branch)
          E == EligibleSet(e.ir)
      IN  /\ Len(ifs) = Cardinality(E)
          /\ { TestedIndex(ifs[k]) : k \in 1..Len(ifs) } = E
          /\ \A k \in 1..Len(ifs) :
               /\ ifs[k].condition.operation = "equal"
               /\ ifs[k].condition.lhs = BoundValue(e.ir)
          /\ \A val \in E :
               LET r == RunLadder(e.last_branch, val)
               IN  /\ Len(r.calls) = 1
                   /\ r.calls[1].callee =
                        << [function |-> val, parameters |-> e.ir.actual_parameters] >>

(***************************************************************************)
(* C4.  Claim: the comparison against the lowest eligible index is the one *)
(* evaluated last at runtime.  Each new conditional wraps the accumulator  *)
(* as its else branch, so the last one built (the lowest index) is the     *)
(* outermost and is evaluated first.                                       *)
(***************************************************************************)
C4_LowestTestedLast ==
  \A e \in Lowerings :
    LET tests == RunLadder(e.last_branch, NoCandidate).tests
    IN  tests # << >> => tests[Len(tests)] = SetMin(EligibleSet(e.ir))
\* C4 as amended: the comparisons run in ascending index order, so the lowest
\* eligible index is evaluated first and the highest eligible index last
C4_LowestTestedFirst ==
  \A e \in Lowerings :
    LET tests == RunLadder(e.last_branch, NoCandidate).tests
    IN  tests # << >> =>
          /\ tests[1] = SetMin(EligibleSet(e.ir))
          /\ tests[Len(tests)] = SetMax(EligibleSet(e.ir))
          /\ \A k \in 1..(Len(tests) - 1) : tests[k] < tests[k + 1]
\* a ladder of at least two conditionals has been built
C4_Witness ==
  \E e \in Lowerings : Len(RunLadder(e.last_branch, NoCandidate).tests) >= 2

(***************************************************************************)
(* C5.  For a lowered indirect call with a return destination, exactly one *)
(* branch's call (that of the highest eligible index, built first) holds   *)
(* the original destination object, every other branch's call holds its    *)
(* own distinct clone, and no destination object is attached to more than  *)
(* one call instruction.                                                   *)
(***************************************************************************)
C5_ReturnDestinations ==
  /\ \A e \in Lowerings :
       (e.ir.return_deref # NULL /\ e.last_branch # << >>) =>
         LET ifs == LadderIfs(e.last_branch)
             orig == e.ir.return_deref
             Dest(k) == ifs[k].then_instructions[1].return_deref
         IN  /\ Cardinality({ k \in 1..Len(ifs) : Dest(k) = orig }) = 1
             /\ \A k \in 1..Len(ifs) :
                  Dest(k) = orig <=> TestedIndex(ifs[k]) = SetMax(EligibleSet(e.ir))
             /\ \A k \in 1..Len(ifs) :
                  Dest(k) # orig =>
                    /\ Dest(k) \in (e.derefs_before + 1)..Len(derefs)
                    /\ derefs[Dest(k)] = derefs[orig]
             /\ \A j, k \in 1..Len(ifs) : j # k => Dest(j) # Dest(k)
  /\ LET calls == AllCalls(instructions)
     IN  \A d \in 1..Len(derefs) :
           Cardinality({ k \in 1..Len(calls) : calls[k].return_deref = d }) <= 1
\* two calls with return destinations have been lowered, one to three branches
C5_Witness ==
  /\ \E e \in Lowerings :
       e.ir.return_deref # NULL /\ Len(LadderIfs(e.last_branch)) >= 3
  /\ Cardinality({ e \in Lowerings :
                     e.ir.return_deref # NULL /\ Len(LadderIfs(e.last_branch)) >= 2 }) >= 2

(***************************************************************************)
(* C6.  Claim: an eligible candidate for which exact-overload matching     *)
(* returns no signature contributes no branch: the ladder holds no         *)
(* conditional and no call for its index.  The code never looks at sub_sig *)
(* and builds the conditional around a call without callee.                *)
(***************************************************************************)
C6_UnmatchedContributesNoBranch ==
  \A e \in Lowerings :
    \A s \in Unmatched(e.ir) :
      /\ \A k \in 1..Len(LadderIfs(e.last_branch)) :
           TestedIndex(LadderIfs(e.last_branch)[k]) # s
      /\ RunLadder(e.last_branch, s).calls = << >>

(***************************************************************************)
(* C7.  Claim: after a subroutine-lowering pass that modified a function   *)
(* body its block-index and dominance flags are false, whereas after a     *)
(* copy-splitting pass that made progress they remain true.                *)
(***************************************************************************)
StructureFlags == { nir_metadata_block_index, nir_metadata_dominance }
C7_CopySplittingKeepsFlags ==
  (PassHasRun /\ returned[Len(returned)]) =>
    \A f \in 1..Len(shader) :
      shader[f].impl # << >> => StructureFlags \subseteq shader[f].impl[1].valid_metadata
C7_MetadataAfterPasses ==
  /\ (sub_pc = "done" /\ lowered # << >>) => StructureFlags \cap body_metadata = {}
  /\ C7_CopySplittingKeepsFlags

(***************************************************************************)
(* C10.  An indirect call for which no registry candidate is eligible      *)
(* produces zero branches: nothing is inserted and the call itself is      *)
(* removed from the instruction list with no replacement.                  *)
(***************************************************************************)
RemoveAt(list, pos) == [k \in 1..(Len(list) - 1) |-> IF k < pos THEN list[k] ELSE list[k + 1]]
C10_NoEligibleCandidate ==
  \A e \in Lowerings :
    EligibleSet(e.ir) = {} =>
      /\ e.last_branch = << >>
      /\ e.before[e.pos] = e.ir
      /\ e.after = RemoveAt(e.before, e.pos)
\* a call was lowered against a registry none of whose candidates is eligible
C10_Witness ==
  \E e \in Lowerings :
    /\ EligibleSet(e.ir) = {}
    /\ state.num_subroutines > 0
    /\ Len(e.before) = MaxCalls
    /\ e.pos = 1

(***************************************************************************)
(* C12.  Direct calls are left alone.  The visit of a call without sub_var *)
(* changes neither the list nor the deref objects; and whatever step the   *)
(* pass takes, every direct call of the list is afterwards the same        *)
(* instruction (callee, arguments, return destination), before the visited *)
(* node at the same index, after it shifted by what the visited node's     *)
(* replacement added or removed, and the direct calls of the list are the  *)
(* same, in the same order.                                                *)
(***************************************************************************)
IsDirectCall(x) == x.ir_type = "call" /\ x.sub_var = << >>
DirectCalls(list) == SelectSeq(list, IsDirectCall)
C12_DirectCallsUntouched ==
  [][ /\ (sub_pc = "visiting" /\ node <= Len(instructions)
           /\ IsDirectCall(instructions[node])) =>
          (instructions' = instructions /\ derefs' = derefs)
      /\ DirectCalls(instructions') = DirectCalls(instructions)
      /\ \A k \in 1..Len(instructions) :
           IsDirectCall(instructions[k]) =>
             LET shift == IF k > node THEN Len(instructions') - Len(instructions) ELSE 0
             IN  /\ k + shift \in 1..Len(instructions')
                 /\ instructions'[k + shift] = instructions[k] ]_vars
\* the pass is over; a direct call was visited after the indirect call in
\* front of it had been removed, and is now the only instruction of the list
C12_Witness ==
  /\ sub_pc = "done"
  /\ \E e \in Lowerings :
       /\ e.pos = 1 /\ e.last_branch = << >>
       /\ Len(e.before) = 2 /\ IsDirectCall(e.before[2])
       /\ instructions = << e.before[2] >>

(***************************************************************************)
(* C20.  Claim: lowering an indirect call that has no return destination   *)
(* never dereferences the missing destination; for every set of eligible   *)
(* candidates the pass completes and every branch's call has no return     *)
(* destination.  With an eligible candidate at an index above 0 the code   *)
(* calls clone() through the NULL return_deref.                            *)
(***************************************************************************)
C20_VoidCallLowered ==
  /\ sub_pc # "crashed"
  /\ \A e \in Lowerings :
       e.ir.return_deref = NULL =>
         \A k \in 1..Len(LadderIfs(e.last_branch)) :
           LadderIfs(e.last_branch)[k].then_instructions[1].return_deref = NULL

(***************************************************************************)
(* sem_post_multiple.c, built without NEED_SEM.  s->value below zero is    *)
(* the number of waiting threads; s->sem is the kernel semaphore they wait *)
(* on, modelled by the count released to it.                               *)
(***************************************************************************)
INT_MAX == 2 ^ (IntBits - 1) - 1
SEM_VALUE_MAX == INT_MAX
EINVAL == "EINVAL"
ERANGE == "ERANGE"
NoError == "0"
SemThreads == 1..MaxPosters
Counts == { -1, 0 } \cup 1..MaxCount
\* values a semaphore can have when a post starts: threads waiting, free,
\* a few units, and at or next to the maximum
InitialValues == ((0 - MaxWaiters)..1) \cup { SEM_VALUE_MAX - 1, SEM_VALUE_MAX }

\* s->value <= (SEM_VALUE_MAX - count): the outcomes of the test.  For a
\* negative count the int subtraction overflows, which is undefined: the
\* test can go either way
RangeTest(value, count) ==
  IF SEM_VALUE_MAX - count <= INT_MAX
    THEN { value <= SEM_VALUE_MAX - count }
    ELSE BOOLEAN

\* (variant: every unit posted is released to the kernel semaphore)
ReleaseCount_all(waiters, count) == count
\* (waiters<=count)?waiters:count
ReleaseCount(waiters, count) == IF waiters <= count THEN waiters ELSE count

\* ReleaseSemaphore(s->sem, n, 0): the outcomes.  It fails for a release
\* count that is not positive; it can fail otherwise (handle, maximum count)
ReleaseSemaphore(n) == IF n > 0 THEN BOOLEAN ELSE { FALSE }

SemThreadIdle ==
  [pc |-> "idle", count |-> 0, waiters |-> 0, result |-> NoError,
   before |-> 0, sem_before |-> 0, wake |-> "none"]

SemInit ==
  /\ \E value \in InitialValues : sem = [value |-> value, lock |-> NULL, sem |-> 0]
  /\ sem_thr = [t \in SemThreads |-> SemThreadIdle]
  /\ errno = [t \in SemThreads |-> NoError]
  /\ posts = << >>
  /\ NirIdle
  /\ SubIdle
  /\ ReuseIdle

SemCallsStarted == Len(posts) + Cardinality({ t \in SemThreads : sem_thr[t].pc # "idle" })

\* sem_post_multiple (sem, count) is called; ptw32_mcs_lock_acquire returns
\* when the lock is free
SemPostEnter(t) ==
  /\ sem_thr[t].pc = "idle"
  /\ SemCallsStarted < MaxPosts
  /\ sem.lock = NULL
  /\ \E count \in Counts :
       sem_thr' = [sem_thr EXCEPT ![t] = [pc |-> "test", count |-> count, waiters |-> 0,
                                          result |-> NoError, before |-> sem.value,
                                          sem_before |-> sem.sem, wake |-> "none"]]
  /\ sem' = [sem EXCEPT !.lock = t]
  /\ UNCHANGED << nir_vars, sub_vars, reuse_vars, errno, posts >>

\* if (s->value <= (SEM_VALUE_MAX - count)) { waiters = -s->value; ... }
\* else { result = ERANGE; }
SemTest(t) ==
  /\ sem_thr[t].pc = "test"
  /\ \E fits \in RangeTest(sem.value, sem_thr[t].count) :
       IF fits
         THEN sem_thr' = [sem_thr EXCEPT ![t].waiters = 0 - sem.value, ![t].pc = "add"]
         ELSE sem_thr' = [sem_thr EXCEPT ![t].result = ERANGE, ![t].pc = "leave"]
  /\ UNCHANGED << nir_vars, sub_vars, reuse_vars, sem, errno, posts >>

\* s->value += count;  if (waiters > 0)
SemAdd(t) ==
  /\ sem_thr[t].pc = "add"
  /\ sem' = [sem EXCEPT !.value = @ + sem_thr[t].count]
  /\ sem_thr' = [sem_thr EXCEPT ![t].pc = IF sem_thr[t].waiters > 0 THEN "wake" ELSE "leave"]
  /\ UNCHANGED << nir_vars, sub_vars, reuse_vars, errno, posts >>

\* (variant: a failed release leaves the count in the value)
SemWake_no_restore(t) ==
  /\ sem_thr[t].pc = "wake"
  /\ LET n == ReleaseCount(sem_thr[t].waiters, sem_thr[t].count)
     IN  \E released \in ReleaseSemaphore(n) :
           IF released
             THEN /\ sem' = [sem EXCEPT !.sem = @ + n]
                  /\ sem_thr' = [sem_thr EXCEPT ![t].pc = "leave", ![t].wake = "released"]
             ELSE /\ sem' = sem
                  /\ sem_thr' = [sem_thr EXCEPT ![t].result = EINVAL, ![t].pc = "leave",
                                                 ![t].wake = "failed"]
  /\ UNCHANGED << nir_vars, sub_vars, reuse_vars, errno, posts >>
\* if (ReleaseSemaphore (...)) { } else { s->value -= count; result = EINVAL; }
SemWake(t) ==
  /\ sem_thr[t].pc = "wake"
  /\ LET n == ReleaseCount(sem_thr[t].waiters, sem_thr[t].count)
     IN  \E released \in ReleaseSemaphore(n) :
           IF released
             THEN /\ sem' = [sem EXCEPT !.sem = @ + n]
                  /\ sem_thr' = [sem_thr EXCEPT ![t].pc = "leave", ![t].wake = "released"]
             ELSE /\ sem' = [sem EXCEPT !.value = @ - sem_thr[t].count]
                  /\ sem_thr' = [sem_thr EXCEPT ![t].result = EINVAL, ![t].pc = "leave",
                                                 ![t].wake = "failed"]
  /\ UNCHANGED << nir_vars, sub_vars, reuse_vars, errno, posts >>

\* ptw32_mcs_lock_release;  if (result != 0) { errno = result; return -1; }
\* return 0;
SemPostLeave(t) ==
  /\ sem_thr[t].pc = "leave"
  /\ sem' = [sem EXCEPT !.lock = IF @ = t THEN NULL ELSE @]
  /\ errno' = IF sem_thr[t].result # NoError
                THEN [errno EXCEPT ![t] = sem_thr[t].result] ELSE errno
  /\ posts' = Append(posts,
       [count |-> sem_thr[t].count, before |-> sem_thr[t].before, after |-> sem.value,
        released |-> sem.sem - sem_thr[t].sem_before,
        ret |-> IF sem_thr[t].result # NoError THEN -1 ELSE 0,
        errno |-> errno'[t], errno_before |-> errno[t], wake |-> sem_thr[t].wake])
  /\ sem_thr' = [sem_thr EXCEPT ![t] = SemThreadIdle]
  /\ UNCHANGED << nir_vars, sub_vars, reuse_vars >>

SemNext ==
  \/ \E t \in SemThreads : SemPostEnter(t)
  \/ \E t \in SemThreads : SemTest(t)
  \/ \E t \in SemThreads : SemAdd(t)
  \/ \E t \in SemThreads : SemWake(t)
  \/ \E t \in SemThreads : SemPostLeave(t)

SpecSem == SemInit /\ [][SemNext]_vars

\* threads waiting on a semaphore of this value, and units it has free
Waiting(value) == IF value < 0 THEN 0 - value ELSE 0
Units(value) == IF value > 0 THEN value ELSE 0
Min(a, b) == IF a <= b THEN a ELSE b

(***************************************************************************)
(* C13.  Claim: sem_post_multiple returns -1 with errno EINVAL, leaves the *)
(* value unchanged and wakes no waiter whenever count <= 0, with or        *)
(* without waiting threads.  The code never tests count: with count = 0    *)
(* and nobody waiting it returns 0.                                        *)
(***************************************************************************)
C13_NonPositiveCountRejected ==
  \A i \in 1..Len(posts) :
    posts[i].count <= 0 =>
      /\ posts[i].ret = -1
      /\ posts[i].errno = EINVAL
      /\ posts[i].after = posts[i].before
      /\ posts[i].released = 0

(***************************************************************************)
(* C14.  A successful sem_post_multiple(sem, count) made while w > 0       *)
(* threads wait releases n = min(w, count) of them, n <= count, and the    *)
(* value rises by count: n units cancel the released waiters, the free     *)
(* units rise by count - n.  With nobody waiting it releases none and the  *)
(* value rises by count.  The posts of several threads are serialised by   *)
(* the lock: each finds the value the previous one left.                   *)
(***************************************************************************)
C14_PostWakesMinOfWaitersAndCount ==
  /\ \A i \in 1..Len(posts) :
       posts[i].ret = 0 =>
         LET w == Waiting(posts[i].before)
             n == posts[i].released
         IN  /\ w > 0 => /\ n = Min(w, posts[i].count)
                         /\ n <= posts[i].count
                         /\ Waiting(posts[i].after) = w - n
                         /\ Units(posts[i].after) - Units(posts[i].before)
                              = posts[i].count - n
             /\ w = 0 => /\ n = 0
                         /\ posts[i].after = posts[i].before + posts[i].count
  /\ \A i \in 2..Len(posts) : posts[i].before = posts[i - 1].after
\* two successful posts, one waking both waiting threads with units to
\* spare, one waking fewer threads than were waiting
C14_Witness ==
  /\ \E i \in 1..Len(posts) :
       /\ posts[i].ret = 0 /\ Waiting(posts[i].before) = 1
       /\ posts[i].count = 2 /\ posts[i].released = 1 /\ posts[i].after = 1
  /\ \E i \in 1..Len(posts) :
       /\ posts[i].ret = 0 /\ Waiting(posts[i].before) = 2
       /\ posts[i].count = 1 /\ posts[i].released = 1 /\ posts[i].after = -1

(***************************************************************************)
(* C15.  Claim: sem_post_multiple returns -1 with errno ERANGE, leaving    *)
(* the value unchanged and waking no one, exactly when the current value   *)
(* is greater than SEM_VALUE_MAX - count; after posts with count > 0 the   *)
(* value never exceeds SEM_VALUE_MAX.  A negative count reaches the test   *)
(* unchecked, and the overflowing subtraction lets the test fail for a     *)
(* value that is not greater than SEM_VALUE_MAX - count.                   *)
(***************************************************************************)
C15_RangeErrorExactlyOnOverflow ==
  /\ \A i \in 1..Len(posts) :
       /\ (posts[i].ret = -1 /\ posts[i].errno = ERANGE)
            <=> posts[i].before > SEM_VALUE_MAX - posts[i].count
       /\ (posts[i].ret = -1 /\ posts[i].errno = ERANGE) =>
            (posts[i].after = posts[i].before /\ posts[i].released = 0)
  /\ sem.value <= SEM_VALUE_MAX

(***************************************************************************)
(* ptw32_reuse.c, built without PTW32_THREAD_ID_REUSE_INCREMENT.  A        *)
(* ptw32_thread_t is known by its address 1..MaxStructs; a pthread_t is a  *)
(* record [p, x].                                                          *)
(***************************************************************************)
Structs == 1..MaxStructs
Callers == 1..MaxCallers
PTW32_THREAD_REUSE_EMPTY == MaxStructs + 1
PthreadT(ptr, x) == [p |-> ptr, x |-> x]
NullHandle == PthreadT(NULL, 0)
ReuseCallerIdle == [pc |-> "idle", tp |-> NULL, t |-> NullHandle]

\* every struct has been allocated and is in use by a running thread; the
\* list is empty
ReuseInit ==
  /\ ptw32_threadReuseTop = PTW32_THREAD_REUSE_EMPTY
  /\ ptw32_threadReuseBottom = PTW32_THREAD_REUSE_EMPTY
  /\ ptw32_thread_reuse_lock = NULL
  /\ thread_structs = [a \in Structs |->
       [ptHandle |-> PthreadT(a, 0), prevReuse |-> NULL, state |-> "PThreadStateInitial"]]
  /\ reuse_thr = [c \in Callers |-> ReuseCallerIdle]
  /\ reuse_queue = << >>
  /\ pops = << >>
  /\ stale = {}
  /\ NirIdle
  /\ SubIdle
  /\ SemIdle

ReuseOpsStarted ==
  Len(pops) + Cardinality(stale)
  + Cardinality({ c \in Callers : reuse_thr[c].pc \in { "pop_top", "pop_fix" } })
\* structs of threads that exist: not in the list, not being pushed
LiveStructs ==
  { a \in Structs :
      /\ \A k \in 1..Len(reuse_queue) : reuse_queue[k].p # a
      /\ \A c \in Callers : reuse_thr[c].tp # a }

\* ptw32_threadReusePush (thread) is called for a thread being destroyed;
\* ptw32_mcs_lock_acquire returns when the lock is free
ReusePushEnter(c) ==
  /\ reuse_thr[c].pc = "idle"
  /\ ReuseOpsStarted < MaxReuseOps
  /\ ptw32_thread_reuse_lock = NULL
  /\ \E a \in LiveStructs :
       /\ reuse_thr' = [reuse_thr EXCEPT ![c] = [pc |-> "push_bump", tp |-> a,
                                                 t |-> NullHandle]]
       /\ stale' = stale \cup { [h |-> thread_structs[a].ptHandle, at |-> Len(pops)] }
  /\ ptw32_thread_reuse_lock' = c
  /\ UNCHANGED << nir_vars, sub_vars, sem_vars, ptw32_threadReuseTop,
                  ptw32_threadReuseBottom, thread_structs, reuse_queue, pops >>

\* t = tp->ptHandle; memset; tp->ptHandle = t; tp->ptHandle.x++;
\* tp->state = PThreadStateReuse; tp->prevReuse = PTW32_THREAD_REUSE_EMPTY;
ReusePushBump(c) ==
  /\ reuse_thr[c].pc = "push_bump"
  /\ LET tp == reuse_thr[c].tp
         t == thread_structs[tp].ptHandle
     IN  /\ thread_structs' = [thread_structs EXCEPT ![tp] =
               [ptHandle |-> PthreadT(t.p, (t.x + 1) % (2 ^ ReuseBits)),
                prevReuse |-> PTW32_THREAD_REUSE_EMPTY,
                state |-> "PThreadStateReuse"]]
         /\ reuse_thr' = [reuse_thr EXCEPT ![c].pc = "push_link", ![c].t = t]
  /\ UNCHANGED << nir_vars, sub_vars, sem_vars, ptw32_threadReuseTop,
                  ptw32_threadReuseBottom, ptw32_thread_reuse_lock, reuse_queue, pops,
                  stale >>

\* (variant: the struct is linked in at the top of the list)
ReusePushLink_at_top(c) ==
  /\ reuse_thr[c].pc = "push_link"
  /\ LET tp == reuse_thr[c].tp
     IN  /\ thread_structs' = [thread_structs EXCEPT ![tp].prevReuse = ptw32_threadReuseTop]
         /\ ptw32_threadReuseTop' = tp
         /\ ptw32_threadReuseBottom' =
              IF ptw32_threadReuseBottom = PTW32_THREAD_REUSE_EMPTY
                THEN tp ELSE ptw32_threadReuseBottom
         /\ reuse_queue' = Append(reuse_queue, thread_structs[tp].ptHandle)
  /\ ptw32_thread_reuse_lock' = IF ptw32_thread_reuse_lock = c THEN NULL
                                ELSE ptw32_thread_reuse_lock
  /\ reuse_thr' = [reuse_thr EXCEPT ![c] = ReuseCallerIdle]
  /\ UNCHANGED << nir_vars, sub_vars, sem_vars, pops, stale >>
\* if (EMPTY != Bottom) Bottom->prevReuse = tp; else Top = tp;  Bottom = tp;
\* ptw32_mcs_lock_release
ReusePushLink(c) ==
  /\ reuse_thr[c].pc = "push_link"
  /\ LET tp == reuse_thr[c].tp
     IN  /\ IF ptw32_threadReuseBottom # PTW32_THREAD_REUSE_EMPTY
              THEN /\ thread_structs' =
                        [thread_structs EXCEPT ![ptw32_threadReuseBottom].prevReuse = tp]
                   /\ UNCHANGED ptw32_threadReuseTop
              ELSE /\ ptw32_threadReuseTop' = tp
                   /\ UNCHANGED thread_structs
         /\ ptw32_threadReuseBottom' = tp
         /\ reuse_queue' = Append(reuse_queue, thread_structs[tp].ptHandle)
  /\ ptw32_thread_reuse_lock' = IF ptw32_thread_reuse_lock = c THEN NULL
                                ELSE ptw32_thread_reuse_lock
  /\ reuse_thr' = [reuse_thr EXCEPT ![c] = ReuseCallerIdle]
  /\ UNCHANGED << nir_vars, sub_vars, sem_vars, pops, stale >>

\* (variant: the pop does not wait for the lock)
ReusePopEnter_no_lock(c) ==
  /\ reuse_thr[c].pc = "idle"
  /\ ReuseOpsStarted < MaxReuseOps
  /\ ptw32_thread_reuse_lock' = c
  /\ reuse_thr' = [reuse_thr EXCEPT ![c] = [pc |-> "pop_top", tp |-> NULL,
                                            t |-> NullHandle]]
  /\ UNCHANGED << nir_vars, sub_vars, sem_vars, ptw32_threadReuseTop,
                  ptw32_threadReuseBottom, thread_structs, reuse_queue, pops, stale >>
\* ptw32_threadReusePop () is called: pthread_t t = {NULL, 0};
\* ptw32_mcs_lock_acquire returns when the lock is free
ReusePopEnter(c) ==
  /\ reuse_thr[c].pc = "idle"
  /\ ReuseOpsStarted < MaxReuseOps
  /\ ptw32_thread_reuse_lock = NULL
  /\ ptw32_thread_reuse_lock' = c
  /\ reuse_thr' = [reuse_thr EXCEPT ![c] = [pc |-> "pop_top", tp |-> NULL,
                                            t |-> NullHandle]]
  /\ UNCHANGED << nir_vars, sub_vars, sem_vars, ptw32_threadReuseTop,
                  ptw32_threadReuseBottom, thread_structs, reuse_queue, pops, stale >>

\* the list is empty: ptw32_mcs_lock_release; return t;
ReusePopEmpty(c) ==
  /\ reuse_thr[c].pc = "pop_top"
  /\ ptw32_threadReuseTop = PTW32_THREAD_REUSE_EMPTY
  /\ pops' = Append(pops, [t |-> reuse_thr[c].t, queue |-> reuse_queue])
  /\ ptw32_thread_reuse_lock' = IF ptw32_thread_reuse_lock = c THEN NULL
                                ELSE ptw32_thread_reuse_lock
  /\ reuse_thr' = [reuse_thr EXCEPT ![c] = ReuseCallerIdle]
  /\ UNCHANGED << nir_vars, sub_vars, sem_vars, ptw32_threadReuseTop,
                  ptw32_threadReuseBottom, thread_structs, reuse_queue, stale >>

\* tp = ptw32_threadReuseTop;  ptw32_threadReuseTop = tp->prevReuse;
ReusePopTop(c) ==
  /\ reuse_thr[c].pc = "pop_top"
  /\ ptw32_threadReuseTop # PTW32_THREAD_REUSE_EMPTY
  /\ reuse_thr' = [reuse_thr EXCEPT ![c].tp = ptw32_threadReuseTop, ![c].pc = "pop_fix"]
  /\ ptw32_threadReuseTop' = thread_structs[ptw32_threadReuseTop].prevReuse
  /\ UNCHANGED << nir_vars, sub_vars, sem_vars, ptw32_threadReuseBottom,
                  ptw32_thread_reuse_lock, thread_structs, reuse_queue, pops, stale >>

\* if (EMPTY == Top) Bottom = EMPTY;  tp->prevReuse = NULL;  t = tp->ptHandle;
\* ptw32_mcs_lock_release; return t;
ReusePopFix(c) ==
  /\ reuse_thr[c].pc = "pop_fix"
  /\ LET tp == reuse_thr[c].tp
     IN  /\ ptw32_threadReuseBottom' =
              IF ptw32_threadReuseTop = PTW32_THREAD_REUSE_EMPTY
                THEN PTW32_THREAD_REUSE_EMPTY ELSE ptw32_threadReuseBottom
         /\ thread_structs' = [thread_structs EXCEPT ![tp].prevReuse = NULL]
         /\ pops' = Append(pops, [t |-> thread_structs[tp].ptHandle, queue |-> reuse_queue])
         /\ reuse_queue' = SelectSeq(reuse_queue, LAMBDA h : h.p # tp)
  /\ ptw32_thread_reuse_lock' = IF ptw32_thread_reuse_lock = c THEN NULL
                                ELSE ptw32_thread_reuse_lock
  /\ reuse_thr' = [reuse_thr EXCEPT ![c] = ReuseCallerIdle]
  /\ UNCHANGED << nir_vars, sub_vars, sem_vars, ptw32_threadReuseTop, stale >>

ReuseNext ==
  \/ \E c \in Callers : ReusePushEnter(c)
  \/ \E c \in Callers : ReusePushBump(c)
  \/ \E c \in Callers : ReusePushLink(c)
  \/ \E c \in Callers : ReusePopEnter(c)
  \/ \E c \in Callers : ReusePopEmpty(c)
  \/ \E c \in Callers : ReusePopTop(c)
  \/ \E c \in Callers : ReusePopFix(c)

SpecReuse == ReuseInit /\ [][ReuseNext]_vars

(***************************************************************************)
(* C16.  A pop returns the handle of the earliest-pushed thread that has   *)
(* not been popped yet, and the null handle {NULL, 0} when no pushed       *)
(* thread remains.                                                         *)
(***************************************************************************)
C16_PopReturnsEarliestPushed ==
  \A j \in 1..Len(pops) :
    IF pops[j].queue = << >>
      THEN pops[j].t = NullHandle
      ELSE pops[j].t = Head(pops[j].queue)
\* two threads were in the list and two pops took them in push order, the
\* second pushed having been pushed again meanwhile; then a pop found nothing
C16_Witness ==
  \E i, j \in 1..Len(pops) :
    /\ i < j
    /\ Len(pops[i].queue) = 2
    /\ pops[i].t.p # pops[i].queue[2].p
    /\ pops[j].queue = << >>
    /\ \E k \in 1..Len(pops) : i < k /\ k < j /\ pops[k].t = pops[i].queue[2]

(***************************************************************************)
(* C17.  Claim: a push increments the reuse counter of the struct's own    *)
(* handle and keeps its pointer, a pop changes no counter; so a pthread_t  *)
(* copy taken before a thread was destroyed differs in its counter from    *)
(* the struct's current handle and from every handle popped later for that *)
(* struct.  The counter has a fixed width: pushed often enough, a struct   *)
(* carries again the counter of an old copy.                               *)
(***************************************************************************)
\* pushes of struct a whose counter increment has been made
Bumped(a) ==
  Cardinality({ copy \in stale : copy.h.p = a })
  - Cardinality({ c \in Callers : reuse_thr[c].pc = "push_bump" /\ reuse_thr[c].tp = a })
C17_StaleCopyDiffers ==
  \A copy \in stale :
    LET original == thread_structs[copy.h.p].ptHandle
    IN  /\ original.p = copy.h.p
        /\ original.x = Bumped(copy.h.p) % (2 ^ ReuseBits)
        /\ (\A c \in Callers : reuse_thr[c].pc = "push_bump" => reuse_thr[c].tp # copy.h.p)
             => copy.h.x # original.x
        /\ \A j \in (copy.at + 1)..Len(pops) :
             pops[j].t.p = copy.h.p => pops[j].t.x # copy.h.x

(***************************************************************************)
(* C21.  Whenever ptw32_thread_reuse_lock is free (no push or pop is       *)
(* inside its critical section), whatever the interleaving of the callers: *)
(* Top is EMPTY iff Bottom is EMPTY; the prevReuse chain from Top ends at  *)
(* Bottom, whose prevReuse is EMPTY; the chain has no cycle and holds each *)
(* thread pushed and not yet popped exactly once, and nothing else.        *)
(***************************************************************************)
\* the structs met following prevReuse from a, at most fuel of them
RECURSIVE ReuseChain(_, _)
ReuseChain(a, fuel) ==
  IF a \notin Structs \/ fuel = 0 THEN << >>
  ELSE << a >> \o ReuseChain(thread_structs[a].prevReuse, fuel - 1)
\* where following prevReuse from a stops
RECURSIVE ReuseChainEnd(_, _)
ReuseChainEnd(a, fuel) ==
  IF a \notin Structs \/ fuel = 0 THEN a
  ELSE ReuseChainEnd(thread_structs[a].prevReuse, fuel - 1)
C21_ReuseListWellFormed ==
  ptw32_thread_reuse_lock = NULL =>
    LET chain == ReuseChain(ptw32_threadReuseTop, MaxStructs + 1)
    IN  /\ (ptw32_threadReuseTop = PTW32_THREAD_REUSE_EMPTY)
             <=> (ptw32_threadReuseBottom = PTW32_THREAD_REUSE_EMPTY)
        /\ ptw32_threadReuseTop \in Structs \cup { PTW32_THREAD_REUSE_EMPTY }
        /\ ReuseChainEnd(ptw32_threadReuseTop, MaxStructs + 1) = PTW32_THREAD_REUSE_EMPTY
        /\ chain # << >> => chain[Len(chain)] = ptw32_threadReuseBottom
        /\ NoDuplicates(chain)
        /\ Elements(chain) = { reuse_queue[k].p : k \in 1..Len(reuse_queue) }
        /\ Len(chain) = Len(reuse_queue)
\* the lock is free, two threads are chained in the list, and pushes and
\* pops by both callers, one of them of an empty list, lie behind
C21_Witness ==
  /\ ptw32_thread_reuse_lock = NULL
  /\ Len(ReuseChain(ptw32_threadReuseTop, MaxStructs + 1)) = 2
  /\ ptw32_threadReuseTop # ptw32_threadReuseBottom
  /\ \E j \in 1..Len(pops) : pops[j].t = NullHandle
  /\ \E j \in 1..Len(pops) : pops[j].t # NullHandle

(***************************************************************************)
(* C22.  When sem_post_multiple has added count to the value and           *)
(* ReleaseSemaphore then fails, the value is put back to what it was       *)
(* before the call, nothing is released to the waiting threads, and the    *)
(* call returns -1 with errno EINVAL; the value is back before the lock is *)
(* released, so the next thread to take the lock finds the pre-call value. *)
(***************************************************************************)
C22_FailedWakeRestoresValue ==
  /\ \A i \in 1..Len(posts) :
       posts[i].wake = "failed" =>
         /\ posts[i].after = posts[i].before
         /\ posts[i].released = 0
         /\ posts[i].ret = -1
         /\ posts[i].errno = EINVAL
         /\ i < Len(posts) => posts[i + 1].before = posts[i].before
  /\ \A t \in SemThreads :
       \* count has been added, the release is about to be tried
       /\ sem_thr[t].pc = "wake" => sem.value = sem_thr[t].before + sem_thr[t].count
       \* the release failed, the lock is still held
       /\ (sem_thr[t].pc = "leave" /\ sem_thr[t].wake = "failed") =>
            (sem.value = sem_thr[t].before /\ sem.sem = sem_thr[t].sem_before)
\* ReleaseSemaphore failed on a positive count with threads waiting, the
\* thread's errno was not EINVAL before, and another post followed
C22_Witness ==
  \E i \in 1..Len(posts) :
    /\ posts[i].wake = "failed"
    /\ posts[i].count > 0
    /\ Waiting(posts[i].before) > 0
    /\ posts[i].errno_before # EINVAL
    /\ i < Len(posts)
    /\ posts[i + 1].ret = 0

====
